---- MODULE Spec2Model ----
(***************************************************************************)
(* Model of the session-expiry index of src/perf_expire.py:                *)
(* DoubleLinkedSet (a dict of Node objects chained by parent_id/child_id   *)
(* keys, with _head_id and _tail_id) and the DoubleLinked driver's expiry  *)
(* sweep cleanup_sessions that runs on top of it, the benchmark driver     *)
(* Testable.run_benchmark with its timestamp counter, and the DequeLog     *)
(* strategy the driver compares it with.                                   *)
(*                                                                         *)
(* Python truthiness is modelled as the interpreter evaluates it: the      *)
(* tests `if node.child_id:`, `if self._tail_id:`, `if not self._head_id:` *)
(* are false for None AND for the integer 0.                               *)
(***************************************************************************)
EXTENDS Integers, Sequences, FiniteSets, TLC

\* ------------------------------------------------------------------ bounds
\* Node ids are the integers 0..MaxKey (the driver draws random.randint(0, N)).
MaxKey == 2
\* Node values (timestamps) are 1..MaxValue; cutoffs are 0..MaxValue.
MaxValue == 2

\* The driver performs at most MaxActivities activities before the cleanup
\* (USER_ACTIVITIES_NUM in the source, far beyond what can be enumerated).
MaxActivities == 5

Keys == 0..MaxKey
Values == 1..MaxValue
Cutoffs == 0..MaxValue

\* ---------------------------------------------------------- Python values
\* Python's None, as a value outside the key domain.
None == -1

\* bool(x) for x an int or None: None and 0 are falsy.
Truthy(x) == x # None /\ x # 0

\* dict helpers: `key in d`, d.pop(key), d[key] = value
Pop(d, k) == [x \in (DOMAIN d) \ {k} |-> d[x]]
Put(d, k, v) == [x \in (DOMAIN d) \cup {k} |-> IF x = k THEN v ELSE d[x]]
EmptyDict == [x \in {} |-> None]

\* Node.__init__
Node(node_id, node_value, parent_id, child_id) ==
  [id |-> node_id, value |-> node_value, parent_id |-> parent_id, child_id |-> child_id]

\* A DoubleLinkedSet object; err is TRUE when a method left by a KeyError.
DLSet(m, h, t, e) == [map |-> m, head_id |-> h, tail_id |-> t, err |-> e]

\* DoubleLinkedSet.__init__
NewDLSet == DLSet(EmptyDict, None, None, FALSE)

\* ------------------------------------------------------ DoubleLinkedSet.add
\* AddLink without `self._tail_id = node_id` once the index has a tail.
AddLink_TailNotMoved(m, h, t, node) ==
  LET m1 == Put(m, node.id, node)
  IN IF Truthy(t) /\ t \notin DOMAIN m1
       THEN DLSet(m1, h, t, TRUE)
       ELSE LET m2 == IF Truthy(t) THEN [m1 EXCEPT ![t].child_id = node.id] ELSE m1
            IN DLSet(m2, IF ~Truthy(h) THEN node.id ELSE h,
                     IF Truthy(t) THEN t ELSE node.id, FALSE)

\* Lines 162-167: store the node, link it behind the tail, move the tail,
\* set the head when the head is falsy.
AddLink(m, h, t, node) ==
  LET m1 == Put(m, node.id, node)
  IN IF Truthy(t) /\ t \notin DOMAIN m1
       THEN DLSet(m1, h, t, TRUE)
       ELSE LET m2 == IF Truthy(t) THEN [m1 EXCEPT ![t].child_id = node.id] ELSE m1
            IN DLSet(m2, IF ~Truthy(h) THEN node.id ELSE h, node.id, FALSE)

add(d, node_id, node_value) ==
  IF node_id \in DOMAIN d.map
    THEN LET node == d.map[node_id]
             m0 == Pop(d.map, node_id)
             e1 == Truthy(node.child_id) /\ node.child_id \notin DOMAIN m0
             m1 == IF Truthy(node.child_id) /\ ~e1
                     THEN [m0 EXCEPT ![node.child_id].parent_id = node.parent_id]
                     ELSE m0
             e2 == Truthy(node.parent_id) /\ node.parent_id \notin DOMAIN m1
             m2 == IF Truthy(node.parent_id) /\ ~e2
                     THEN [m1 EXCEPT ![node.parent_id].child_id = node.child_id]
                     ELSE m1
             h == IF node_id = d.head_id THEN node.child_id ELSE d.head_id
             t == IF node_id = d.tail_id THEN node.parent_id ELSE d.tail_id
         IN IF e1 THEN DLSet(m0, d.head_id, d.tail_id, TRUE)
            ELSE IF e2 THEN DLSet(m1, d.head_id, d.tail_id, TRUE)
            ELSE AddLink(m2, h, t, Node(node_id, node_value, t, None))
    ELSE AddLink(d.map, d.head_id, d.tail_id,
                 Node(node_id, node_value, d.tail_id, None))

\* --------------------------------------------------- DoubleLinkedSet.unlink
\* unlink that pops without the membership test: an absent id raises KeyError.
unlink_NoMembershipTest(d, node_id) ==
  IF node_id \in DOMAIN d.map
    THEN LET node == d.map[node_id]
             m0 == Pop(d.map, node_id)
             e1 == Truthy(node.child_id) /\ node.child_id \notin DOMAIN m0
             m1 == IF Truthy(node.child_id) /\ ~e1
                     THEN [m0 EXCEPT ![node.child_id].parent_id = node.parent_id]
                     ELSE m0
             e2 == Truthy(node.parent_id) /\ node.parent_id \notin DOMAIN m1
             m2 == IF Truthy(node.parent_id) /\ ~e2
                     THEN [m1 EXCEPT ![node.parent_id].child_id = node.child_id]
                     ELSE m1
             h == IF node_id = d.head_id THEN node.child_id ELSE d.head_id
             t == IF node_id = d.tail_id THEN node.parent_id ELSE d.tail_id
         IN IF e1 THEN DLSet(m0, d.head_id, d.tail_id, TRUE)
            ELSE IF e2 THEN DLSet(m1, d.head_id, d.tail_id, TRUE)
            ELSE DLSet(m2, h, t, FALSE)
    ELSE [d EXCEPT !.err = TRUE]

unlink(d, node_id) ==
  IF node_id \in DOMAIN d.map
    THEN LET node == d.map[node_id]
             m0 == Pop(d.map, node_id)
             e1 == Truthy(node.child_id) /\ node.child_id \notin DOMAIN m0
             m1 == IF Truthy(node.child_id) /\ ~e1
                     THEN [m0 EXCEPT ![node.child_id].parent_id = node.parent_id]
                     ELSE m0
             e2 == Truthy(node.parent_id) /\ node.parent_id \notin DOMAIN m1
             m2 == IF Truthy(node.parent_id) /\ ~e2
                     THEN [m1 EXCEPT ![node.parent_id].child_id = node.child_id]
                     ELSE m1
             h == IF node_id = d.head_id THEN node.child_id ELSE d.head_id
             t == IF node_id = d.tail_id THEN node.parent_id ELSE d.tail_id
         IN IF e1 THEN DLSet(m0, d.head_id, d.tail_id, TRUE)
            ELSE IF e2 THEN DLSet(m1, d.head_id, d.tail_id, TRUE)
            ELSE DLSet(m2, h, t, FALSE)
    ELSE d

\* unlink returning the value of the node it removed.
unlink_ret_StoredValue(d, node_id) ==
  IF node_id \in DOMAIN d.map THEN <<d.map[node_id].value>> ELSE <<>>

\* The value of the call unlink(node_id): the method has no return statement,
\* so the call evaluates to None (<<>>) on every path.
unlink_ret(d, node_id) == <<>>

\* ----------------------------------------------------- DoubleLinkedSet.head
\* head that removes the node it returns (a pop of the oldest entry).
head_PopsOldest(d) ==
  IF Truthy(d.head_id)
    THEN IF d.head_id \in DOMAIN d.map
           THEN [ret |-> <<d.map[d.head_id]>>, err |-> FALSE,
                 dlset |-> DLSet(Pop(d.map, d.head_id),
                                 d.map[d.head_id].child_id, d.tail_id, d.err)]
           ELSE [ret |-> <<>>, err |-> TRUE, dlset |-> d]
    ELSE [ret |-> <<>>, err |-> FALSE, dlset |-> d]

\* ret is <<>> for None and <<node>> for a node; err is a KeyError of
\* self._map[self._head_id]; dlset is the object after the call (the method
\* assigns no field).
head(d) ==
  IF Truthy(d.head_id)
    THEN IF d.head_id \in DOMAIN d.map
           THEN [ret |-> <<d.map[d.head_id]>>, err |-> FALSE, dlset |-> d]
           ELSE [ret |-> <<>>, err |-> TRUE, dlset |-> d]
    ELSE [ret |-> <<>>, err |-> FALSE, dlset |-> d]

\* ------------------------------------------------- DoubleLinkedSet.__iter__
\* The nodes the generator yields, cut after `fuel` nodes (dict.get returns
\* None for a missing key and for the key None; a Node object is truthy).
RECURSIVE IterFrom(_, _, _)
IterFrom(m, node_id, fuel) ==
  IF fuel = 0 \/ node_id \notin DOMAIN m
    THEN <<>>
    ELSE <<m[node_id]>> \o IterFrom(m, m[node_id].child_id, fuel - 1)

\* list(dlset): one more node than the dict holds means the walk is on a cycle.
Iterate(d) == IterFrom(d.map, d.head_id, Cardinality(DOMAIN d.map) + 1)

\* DoubleLinkedSet.__len__
Size(d) == Cardinality(DOMAIN d.map)

\* list(dlset), as __repr__ and get_used_memory run it: ret is the (id, value)
\* of the yielded nodes; hung is TRUE when the walk is on a cycle of child_id
\* links and the generator never finishes; dlset is the object after the walk
\* (the generator assigns no field).
to_list(d) ==
  [ret |-> [i \in 1..Len(Iterate(d)) |-> <<Iterate(d)[i].id, Iterate(d)[i].value>>],
   hung |-> Len(Iterate(d)) > Size(d),
   dlset |-> d]

\* len(dlset): the count and the object after the call.
len_call(d) == [ret |-> <<Size(d)>>, dlset |-> d]

\* ------------------------------------------ DoubleLinked.cleanup_sessions
\* The while loop of lines 116-123; us is self.user_sessions.
RECURSIVE cleanup_loop(_, _, _, _)
cleanup_loop(d, us, expire_timestamp, deleted_sessions) ==
  LET hd == head(d)
      stop == [dlset |-> d, user_sessions |-> us, ret |-> deleted_sessions]
  IN IF hd.err
       THEN [stop EXCEPT !.dlset.err = TRUE]
     ELSE IF hd.ret = <<>>
       THEN stop
     ELSE LET sess == hd.ret[1]
              d1 == unlink(d, sess.id)
          IN IF sess.value > expire_timestamp
               THEN stop
             ELSE IF d1.err
               THEN [stop EXCEPT !.dlset = d1]
             ELSE IF sess.id \notin DOMAIN us
               THEN [stop EXCEPT !.dlset = [d1 EXCEPT !.err = TRUE]]
             ELSE cleanup_loop(d1, Pop(us, sess.id), expire_timestamp,
                               deleted_sessions + 1)

cleanup_sessions(d, us, expire_timestamp) ==
  cleanup_loop(d, us, expire_timestamp, 0)

\* ------------------------------------------------------ Testable.timestamp
\* timestamp that hands out the current counter without incrementing it.
timestamp_NotIncremented(t) == t

\* self._ts += 1; return self._ts
timestamp(t) == t + 1

\* expire_timestamp = int(self._ts * self.EXPIRE_PERIOD_RATIO), ratio .5
expire_timestamp_of(t) == t \div 2

\* ------------------------------------------------ DequeLog.cleanup_sessions
\* A DequeLog object: its user_sessions, its activity_log deque, and ret, the
\* value its cleanup_sessions returned (<<>> before the cleanup ran).
NewDequeLog == [user_sessions |-> EmptyDict, activity_log |-> <<>>, ret |-> <<>>]

\* DequeLog.optimize_session_search after self.user_sessions[user_id] = ts
DequeLog_activity(q, user_id, t) ==
  [q EXCEPT !.user_sessions = Put(@, user_id, t),
            !.activity_log = Append(@, <<user_id, t>>)]

\* The while loop of lines 94-100.
RECURSIVE DequeLog_cleanup_loop(_, _, _)
DequeLog_cleanup_loop(q, expire_timestamp, deleted_sessions) ==
  IF q.activity_log = <<>>
    THEN [q EXCEPT !.ret = <<deleted_sessions>>]
    ELSE LET user_id == q.activity_log[1][1]
             t == q.activity_log[1][2]
             hit == /\ user_id \in DOMAIN q.user_sessions
                    /\ q.user_sessions[user_id] <= expire_timestamp
             q1 == [q EXCEPT !.activity_log = Tail(@),
                             !.user_sessions = IF hit THEN Pop(@, user_id) ELSE @]
             n1 == IF hit THEN deleted_sessions + 1 ELSE deleted_sessions
         IN IF t > expire_timestamp
              THEN [q1 EXCEPT !.ret = <<n1>>]
              ELSE DequeLog_cleanup_loop(q1, expire_timestamp, n1)

DequeLog_cleanup_sessions(q, expire_timestamp) ==
  DequeLog_cleanup_loop(q, expire_timestamp, 0)

\* ----------------------------------------- objects of the other programs
\* A buffered SQLite testable (storage_perf.py, perf_storage.py, test.py):
\*   variant      the class of the testable
\*   buffer_size  its buffer_size (test.py: limit)
\*   buffer       self.buffer, leftmost element first
\*   cur          the rows INSERTed through self.cur in the open transaction
\*   log          the committed rows of table log
\*   closed       self.con.close() has run
\*   i            the number of records the benchmark loop has passed in
\* A record is modelled by its number in the loop, 1, 2, ...
NewIns(variant, size) ==
  [variant |-> variant, buffer_size |-> size, buffer |-> <<>>, cur |-> <<>>,
   log |-> <<>>, closed |-> FALSE, i |-> 0]

\* No storage testable is constructed in a run of perf_expire.py.
NoIns == NewIns("none", 0)

\* Mg.__init__(num_from, num_to), with the local num of Mg.result and the
\* position of the call: "result" while the search loop of Mg.result runs,
\* "returned" once it has returned self.__iterations. seen holds the values
\* num had at the start of the passes made so far, and hung is TRUE once a
\* pass starts with a num it has started with before.
NewMg(num_from, num_to) ==
  [num_from |-> num_from, num_to |-> num_to, iterations |-> 0,
   num |-> num_from, pc |-> "result", seen |-> {}, hung |-> FALSE]

\* No Mg object is constructed in a run of perf_expire.py.
NoMg == [NewMg(0, 0) EXCEPT !.pc = "none"]

\* ------------------------------------------------------------------- state
VARIABLES
  map,            \* DoubleLinkedSet._map : id -> Node
  head_id,        \* DoubleLinkedSet._head_id
  tail_id,        \* DoubleLinkedSet._tail_id
  user_sessions,  \* Testable.user_sessions : id -> last timestamp
  err,            \* TRUE once a call has left by an uncaught KeyError
  last,           \* the last call: its name, arguments, result and what
                  \* list(dlset)/len(dlset) gave just before it
  adds,           \* the ids added so far, while every call since construction
                  \* was an add of a new id (pure), else empty
  hung,           \* TRUE once a call iterates a cyclic chain and never returns
  ts,             \* Testable._ts, the timestamp counter of the driver
  phase,          \* where run_benchmark is: "activities", "measured", "done"
  dequelog,       \* the DequeLog testable fed with the same activities
  ins,            \* the buffered SQLite testable of a storage benchmark run:
                  \* its buffer, its open transaction and its table
  mg              \* the Mg object of a Mg.calculate call and where its
                  \* search loop is
vars == <<map, head_id, tail_id, user_sessions, err, last, adds, hung,
          ts, phase, dequelog, ins, mg>>
driver == <<ts, phase, dequelog>>
\* The objects of the other programs of the repository (storage_perf.py,
\* perf_storage.py, test.py, mg.py), which perf_expire.py never touches.
others == <<ins, mg>>

\* The DoubleLinkedSet object the variables hold.
dlset == DLSet(map, head_id, tail_id, err)

Items(nodes) == [i \in 1..Len(nodes) |-> <<nodes[i].id, nodes[i].value>>]

Call(op, node_id, value, ret) ==
  [op |-> op, id |-> node_id, value |-> value, ret |-> ret,
   present |-> node_id \in DOMAIN map,
   pre_value |-> IF node_id \in DOMAIN map THEN <<map[node_id].value>> ELSE <<>>,
   pre_items |-> Items(Iterate(dlset)),
   pre_sessions |-> user_sessions,
   pre_len |-> Size(dlset)]

\* Testable.__init__ and DoubleLinked.setup: nothing stored yet.
InitIndex ==
  /\ map = NewDLSet.map
  /\ head_id = NewDLSet.head_id
  /\ tail_id = NewDLSet.tail_id
  /\ user_sessions = EmptyDict
  /\ err = FALSE
  /\ last = [op |-> "init", id |-> None, value |-> None, ret |-> <<>>,
             present |-> FALSE, pre_value |-> <<>>, pre_items |-> <<>>,
             pre_sessions |-> EmptyDict, pre_len |-> 0]
  /\ adds = [pure |-> TRUE, ids |-> <<>>]
  /\ hung = FALSE
  /\ ts = 0
  /\ phase = "activities"
  /\ dequelog = NewDequeLog

Init ==
  /\ InitIndex
  /\ ins = NoIns
  /\ mg = NoMg

\* The program is still running: no call raised, none is stuck.
Running == err = FALSE /\ hung = FALSE

Store(d) ==
  /\ map' = d.map
  /\ head_id' = d.head_id
  /\ tail_id' = d.tail_id
  /\ err' = d.err

\* One activity of the driver with a caller-chosen timestamp:
\* self.user_sessions[user_id] = ts; self.dlset.add(user_id, ts)
Add(node_id, node_value) ==
  /\ Running
  /\ Store(add(dlset, node_id, node_value))
  /\ user_sessions' = Put(user_sessions, node_id, node_value)
  /\ last' = Call("add", node_id, node_value, <<>>)
  /\ adds' = IF adds.pure /\ node_id \notin DOMAIN map
               THEN [adds EXCEPT !.ids = Append(@, node_id)]
               ELSE [pure |-> FALSE, ids |-> <<>>]
  /\ UNCHANGED <<hung, driver, others>>

\* dlset.unlink(node_id) called on the index directly.
Unlink(node_id) ==
  /\ Running
  /\ Store(unlink(dlset, node_id))
  /\ last' = Call("unlink", node_id, None, unlink_ret(dlset, node_id))
  /\ adds' = [pure |-> FALSE, ids |-> <<>>]
  /\ UNCHANGED <<user_sessions, hung, driver, others>>

\* dlset.head()
HeadCall ==
  /\ Running
  /\ Store([head(dlset).dlset EXCEPT !.err = head(dlset).err])
  /\ last' = Call("head", None, None, head(dlset).ret)
  /\ UNCHANGED <<user_sessions, adds, hung, driver, others>>

\* list(dlset): a complete iteration.
IterCall ==
  /\ Running
  /\ Store(to_list(dlset).dlset)
  /\ hung' = to_list(dlset).hung
  /\ last' = Call("iter", None, None, to_list(dlset).ret)
  /\ UNCHANGED <<user_sessions, adds, driver, others>>

\* len(dlset)
LenCall ==
  /\ Running
  /\ Store(len_call(dlset).dlset)
  /\ last' = Call("len", None, None, len_call(dlset).ret)
  /\ UNCHANGED <<user_sessions, adds, hung, driver, others>>

\* DoubleLinked.cleanup_sessions(expire_timestamp)
Cleanup(expire_timestamp) ==
  /\ Running
  /\ LET r == cleanup_sessions(dlset, user_sessions, expire_timestamp)
     IN /\ Store(r.dlset)
        /\ user_sessions' = r.user_sessions
        /\ last' = Call("cleanup", None, expire_timestamp, <<r.ret>>)
  /\ adds' = [pure |-> FALSE, ids |-> <<>>]
  /\ UNCHANGED <<hung, driver, others>>

Next ==
  \/ \E k \in Keys, v \in Values : Add(k, v)
  \/ \E k \in Keys : Unlink(k)
  \/ HeadCall
  \/ IterCall
  \/ LenCall
  \/ \E c \in Cutoffs : Cleanup(c)

Spec == Init /\ [][Next]_vars

\* ------------------------------------------------- Testable.run_benchmark
\* One pass of the activity loop (lines 53-57), on the DoubleLinked testable
\* and on a DequeLog testable that receives the same (user_id, ts).
Activity(user_id) ==
  /\ Running
  /\ phase = "activities"
  /\ ts < MaxActivities
  /\ ts' = timestamp(ts)
  /\ user_sessions' = Put(user_sessions, user_id, ts')
  /\ Store(add(dlset, user_id, ts'))
  /\ dequelog' = DequeLog_activity(dequelog, user_id, ts')
  /\ last' = Call("add", user_id, ts', <<>>)
  /\ adds' = IF adds.pure /\ user_id \notin DOMAIN map
               THEN [adds EXCEPT !.ids = Append(@, user_id)]
               ELSE [pure |-> FALSE, ids |-> <<>>]
  /\ UNCHANGED <<hung, phase, others>>

\* memory_usage = self.get_used_memory() (line 61): DoubleLinked iterates
\* the whole dlset, DequeLog only asks for the size of the deque.
MeasureMemory ==
  /\ Running
  /\ phase = "activities"
  /\ Store(to_list(dlset).dlset)
  /\ hung' = to_list(dlset).hung
  /\ phase' = "measured"
  /\ last' = Call("iter", None, None, to_list(dlset).ret)
  /\ UNCHANGED <<user_sessions, adds, ts, dequelog, others>>

\* Lines 65-66: the cleanup with expire_timestamp = int(_ts * .5), on both
\* testables.
RunCleanup ==
  /\ Running
  /\ phase = "measured"
  /\ LET r == cleanup_sessions(dlset, user_sessions, expire_timestamp_of(ts))
     IN /\ Store(r.dlset)
        /\ user_sessions' = r.user_sessions
        /\ last' = Call("cleanup", None, expire_timestamp_of(ts), <<r.ret>>)
  /\ dequelog' = DequeLog_cleanup_sessions(dequelog, expire_timestamp_of(ts))
  /\ phase' = "done"
  /\ adds' = [pure |-> FALSE, ids |-> <<>>]
  /\ UNCHANGED <<hung, ts, others>>

NextDriver ==
  \/ \E u \in Keys : Activity(u)
  \/ MeasureMemory
  \/ RunCleanup

SpecDriver == Init /\ [][NextDriver]_vars

\* ------------------------------------------------------ helpers of claims
KeysOf(nodes) == [i \in 1..Len(nodes) |-> nodes[i].id]
Reverse(s) == [i \in 1..Len(s) |-> s[Len(s) + 1 - i]]
Range(s) == {s[i] : i \in 1..Len(s)}
RemoveKey(items, k) == SelectSeq(items, LAMBDA it : it[1] # k)

\* The walk along parent_id from node_id, cut after `fuel` nodes.
RECURSIVE BackFrom(_, _, _)
BackFrom(m, node_id, fuel) ==
  IF fuel = 0 \/ node_id \notin DOMAIN m
    THEN <<>>
    ELSE <<m[node_id]>> \o BackFrom(m, m[node_id].parent_id, fuel - 1)

NonDecreasing(items) ==
  \A i \in 1..Len(items) - 1 : items[i][2] <= items[i + 1][2]

\* Number of leading items whose value is <= cutoff.
RECURSIVE LeadingExpired(_, _)
LeadingExpired(items, cutoff) ==
  IF items = <<>> \/ items[1][2] > cutoff
    THEN 0
    ELSE 1 + LeadingExpired(Tail(items), cutoff)

AllExpired(items, cutoff) ==
  Cardinality({i \in 1..Len(items) : items[i][2] <= cutoff})

Returned == Running

\* ------------------------------------------------------------------ claims

\* C1 (invariant I1): after any sequence of completed add/unlink/cleanup
\* calls, following child_id from head_id visits every node of map exactly
\* once and ends at tail_id, and following parent_id from tail_id visits the
\* same nodes in the reverse order.
C1_ChainVisitsAll ==
  Returned =>
    LET f == KeysOf(Iterate(dlset))
        b == KeysOf(BackFrom(map, tail_id, Size(dlset) + 1))
    IN /\ Len(f) = Size(dlset)
       /\ Range(f) = DOMAIN map
       /\ (f # <<>> => f[Len(f)] = tail_id)
       /\ b = Reverse(f)

\* C2 (invariant I2): head_id is None iff tail_id is None iff map is empty.
C2_EmptyIffNoEnds ==
  Returned =>
    /\ (head_id = None) <=> (tail_id = None)
    /\ (tail_id = None) <=> (DOMAIN map = {})

\* C3 (invariant I3): every parent_id and child_id is None or a key of map,
\* and no walk along child_id runs into a cycle.
C3_NoDanglingNoCycle ==
  Returned =>
    \A k \in DOMAIN map :
      /\ map[k].parent_id \in (DOMAIN map) \cup {None}
      /\ map[k].child_id \in (DOMAIN map) \cup {None}
      /\ Len(IterFrom(map, k, Size(dlset) + 1)) <= Size(dlset)

\* C4 (totality): no add, unlink or head call, in any reachable state, leaves
\* by a KeyError.
C4_NoKeyError ==
  ~(err /\ last.op \in {"add", "unlink", "head"})

\* C5 (add makes the key newest): after add(id, value) returns, tail_id = id,
\* the node has no child, holds the value, and the size grew by one for a new
\* id and is unchanged for a present one.
C5_AddIsNewest ==
  (Returned /\ last.op = "add") =>
    /\ tail_id = last.id
    /\ last.id \in DOMAIN map
    /\ map[last.id].child_id = None
    /\ map[last.id].value = last.value
    /\ Size(dlset) = last.pre_len + (IF last.present THEN 0 ELSE 1)

\* A present id that was the oldest of at least two iterated entries has been
\* added again and the call returned.
C5_Witness ==
  /\ Returned
  /\ last.op = "add"
  /\ last.present
  /\ Len(last.pre_items) >= 2
  /\ last.pre_items[1][1] = last.id
  /\ tail_id = last.id

\* C6 (order preservation): after adds of pairwise distinct ids on an empty
\* index, iteration yields the ids in the order of the adds.
C6_OrderPreserved ==
  (Returned /\ adds.pure) => KeysOf(Iterate(dlset)) = adds.ids

\* C7 (refresh to newest): add(id, value) on a present id makes the iteration
\* the previous iteration without that id, followed by (id, value).
C7_RefreshToNewest ==
  (Returned /\ last.op = "add" /\ last.present) =>
    Items(Iterate(dlset)) =
      RemoveKey(last.pre_items, last.id) \o << <<last.id, last.value>> >>

\* C8 (splice correctness): unlink(id) of a present id leaves the previous
\* iteration without exactly that id, and len one smaller.
C8_SpliceCorrect ==
  (Returned /\ last.op = "unlink" /\ last.present) =>
    /\ Items(Iterate(dlset)) = RemoveKey(last.pre_items, last.id)
    /\ Size(dlset) = last.pre_len - 1

\* C9 (oldest consistency): head() returns the first entry of the iteration,
\* and len is 0 iff head() returns None.
C9_HeadIsFirst ==
  Returned =>
    LET hd == head(dlset)
        it == Iterate(dlset)
    IN /\ hd.err = FALSE
       /\ hd.ret = (IF it = <<>> THEN <<>> ELSE <<it[1]>>)
       /\ (Size(dlset) = 0) <=> (hd.ret = <<>>)

\* C10 (expiry count): when the chain held non-decreasing values, the sweep
\* with value <= cutoff returns the number of leading expired entries, which
\* is the number of all expired entries.
C10_ExpiryCount ==
  (Returned /\ last.op = "cleanup" /\ NonDecreasing(last.pre_items)) =>
    /\ last.ret = <<LeadingExpired(last.pre_items, last.value)>>
    /\ last.ret = <<AllExpired(last.pre_items, last.value)>>

C12_NotFoundNoChange ==
  [][(last'.op = "unlink" /\ ~last'.present) =>
       /\ err' = FALSE
       /\ last'.ret = <<>>
       /\ map' = map
       /\ head_id' = head_id
       /\ tail_id' = tail_id
       /\ Size(dlset)' = Size(dlset)]_vars

\* An absent id has been unlinked from a non-empty index.
C12_Witness ==
  /\ Returned
  /\ last.op = "unlink"
  /\ ~last.present
  /\ last.pre_len >= 1
  /\ Size(dlset) = last.pre_len

\* C13 (read-only operations): head(), a complete iteration and len() leave
\* map, all nodes, head_id and tail_id unchanged.
C13_ReadsChangeNothing ==
  [][(last'.op \in {"head", "iter", "len"}) =>
       /\ map' = map
       /\ head_id' = head_id
       /\ tail_id' = tail_id
       /\ user_sessions' = user_sessions]_vars

\* head() has returned a node of an index of at least two entries.
C13_Witness ==
  /\ Returned
  /\ last.op = "head"
  /\ last.ret # <<>>
  /\ last.pre_len >= 2
  /\ Size(dlset) = last.pre_len

\* C14 (iteration is finite, complete, restartable): a complete iteration
\* ends, has yielded exactly len entries, and a fresh iteration yields the
\* same sequence again.
C14_IterationComplete ==
  (err = FALSE /\ last.op = "iter") =>
    /\ hung = FALSE
    /\ Len(last.ret) = last.pre_len
    /\ to_list(dlset).hung = FALSE
    /\ to_list(dlset).ret = last.ret

\* C15 (stop policy of the sweep, any chain): the sweep removes exactly the
\* maximal leading run of entries with value <= cutoff and returns its length;
\* afterwards the index is empty or its oldest entry is not expired, and the
\* entries behind the run are kept in their order.
C15_SweepStopPolicy ==
  (Returned /\ last.op = "cleanup") =>
    LET n == LeadingExpired(last.pre_items, last.value)
        post == to_list(dlset).ret
    IN /\ last.ret = <<n>>
       /\ post = SubSeq(last.pre_items, n + 1, Len(last.pre_items))
       /\ Size(dlset) = 0 \/ (post # <<>> /\ post[1][2] > last.value)

\* C16 (the atomic half of the concurrency claim): when every add, unlink,
\* head and sweep runs to completion before the next call starts, no state
\* violating I1-I3 and no lookup of a key missing from map is reachable.
C16_AtomicCallsAreSafe ==
  /\ err = FALSE
  /\ LET f == KeysOf(Iterate(dlset))
         b == KeysOf(BackFrom(map, tail_id, Size(dlset) + 1))
     IN /\ Range(f) = DOMAIN map
        /\ Len(f) = Size(dlset)
        /\ b = Reverse(f)
        /\ (head_id = None) = (DOMAIN map = {})
        /\ (tail_id = None) = (DOMAIN map = {})
        /\ \A k \in DOMAIN map :
             {map[k].parent_id, map[k].child_id} \subseteq (DOMAIN map) \cup {None}

StrictlyIncreasing(items) ==
  \A i \in 1..Len(items) - 1 : items[i][2] < items[i + 1][2]

C18_CompleteExpiry ==
  (phase = "done" /\ Returned) =>
    /\ \A k \in DOMAIN user_sessions : user_sessions[k] > last.value
    /\ \A k \in DOMAIN last.pre_sessions :
         last.pre_sessions[k] > last.value =>
           (k \in DOMAIN user_sessions /\ user_sessions[k] = last.pre_sessions[k])
    /\ last.ret =
         <<Cardinality((DOMAIN last.pre_sessions) \ (DOMAIN user_sessions))>>

\* C19 (driver synchronisation): after every activity and after the cleanup
\* the ids reached by iterating dlset are the keys of user_sessions, each
\* node's value is user_sessions[id], and no call has raised a KeyError.
C19_IndexMatchesSessions ==
  /\ err = FALSE
  /\ hung = FALSE =>
       /\ Range(KeysOf(Iterate(dlset))) = DOMAIN user_sessions
       /\ \A k \in (DOMAIN map) \cap (DOMAIN user_sessions) :
            map[k].value = user_sessions[k]

\* C20 (the two expiry strategies agree): on the same activities and the same
\* expire_timestamp, DequeLog.cleanup_sessions and
\* DoubleLinked.cleanup_sessions return the same count and leave the same
\* user_sessions.
C20_StrategiesAgree ==
  (phase = "done" /\ Returned) =>
    /\ dequelog.ret = last.ret
    /\ dequelog.user_sessions = user_sessions

\* ------------------------------------------- buffered SQLite storage
\* The classes of src/storage_perf.py that buffer records before they
\* INSERT them (src/perf_storage.py holds the same classes with action() in
\* place of save_record(record)), and SQliteBuffered of src/test.py.

\* The number of records a run passes in.
MaxRecords == 7
\* buffer_size (100000 in the benchmarks, limit = 100 in test.py) is drawn
\* from 1..MaxBufferSize.
MaxBufferSize == 3

Variants == {"SQliteBufferedList", "SQliteBufferedReverseList",
             "SQliteBufferedDeque", "SQliteBuffered"}

\* self.cur.execute(self.INSERT, row): the row joins the open transaction.
execute_INSERT(s, row) == [s EXCEPT !.cur = Append(@, row)]

\* self.con.commit(): the rows of the open transaction reach the table.
commit(s) == [s EXCEPT !.log = @ \o s.cur, !.cur = <<>>]

\* self.con.close(): sqlite3 rolls back what was not committed.
close(s) == [s EXCEPT !.cur = <<>>, !.closed = TRUE]

\* SQliteBufferedList._flush_buffer:
\*   while self.buffer: self.cur.execute(self.INSERT, self.buffer.pop(0))
\*   self.con.commit()
RECURSIVE SQliteBufferedList_flush_buffer(_)
SQliteBufferedList_flush_buffer(s) ==
  IF s.buffer # <<>>
    THEN SQliteBufferedList_flush_buffer(
           execute_INSERT([s EXCEPT !.buffer = Tail(@)], Head(s.buffer)))
    ELSE commit(s)

\* SQliteBufferedList.save_record: self.buffer.insert(0, row)
SQliteBufferedList_save_record(s, record) ==
  LET s1 == [s EXCEPT !.buffer = <<record>> \o @]
  IN IF Len(s1.buffer) >= s1.buffer_size
       THEN SQliteBufferedList_flush_buffer(s1)
       ELSE s1

\* SQlite.finalize: self.con.commit(); self.con.close()
SQlite_finalize(s) == close(commit(s))

\* SQliteBufferedList.finalize, inherited by SQliteBufferedReverseList.
SQliteBufferedList_finalize(s) ==
  SQlite_finalize(SQliteBufferedList_flush_buffer(s))

\* SQliteBufferedReverseList.save_record: self.buffer.append(row); the
\* flush is the inherited one.
SQliteBufferedReverseList_save_record(s, record) ==
  LET s1 == [s EXCEPT !.buffer = Append(@, record)]
  IN IF Len(s1.buffer) >= s1.buffer_size
       THEN SQliteBufferedList_flush_buffer(s1)
       ELSE s1

\* SQliteBufferedDeque._flush_buffer:
\*   while self.buffer: self.cur.execute(self.INSERT, self.buffer.popleft())
\*   self.con.commit()
RECURSIVE SQliteBufferedDeque_flush_buffer(_)
SQliteBufferedDeque_flush_buffer(s) ==
  IF s.buffer # <<>>
    THEN SQliteBufferedDeque_flush_buffer(
           execute_INSERT([s EXCEPT !.buffer = Tail(@)], Head(s.buffer)))
    ELSE commit(s)

\* SQliteBufferedDeque.save_record: self.buffer.appendleft(row)
SQliteBufferedDeque_save_record(s, record) ==
  LET s1 == [s EXCEPT !.buffer = <<record>> \o @]
  IN IF Len(s1.buffer) >= s1.buffer_size
       THEN SQliteBufferedDeque_flush_buffer(s1)
       ELSE s1

SQliteBufferedDeque_finalize(s) ==
  SQlite_finalize(SQliteBufferedDeque_flush_buffer(s))

\* for record in self.buffer: self.cur.execute("INSERT ...", record)
RECURSIVE execute_each(_, _)
execute_each(s, records) ==
  IF records = <<>> THEN s
  ELSE execute_each(execute_INSERT(s, Head(records)), Tail(records))

\* The same flush with self.buffer.clear() left out.
SQliteBuffered_flush_buffer_NoClear(s) ==
  IF s.buffer # <<>> THEN commit(execute_each(s, s.buffer)) ELSE s

\* SQliteBuffered._flush_buffer of test.py:
\*   if self.buffer:
\*       for record in self.buffer: self.cur.execute("INSERT ...", record)
\*       self.con.commit()
\*       self.buffer.clear()
SQliteBuffered_flush_buffer(s) ==
  IF s.buffer # <<>>
    THEN [commit(execute_each(s, s.buffer)) EXCEPT !.buffer = <<>>]
    ELSE s

\* SQliteBuffered.save_record of test.py: self.buffer.append(row), then the
\* flush once len(self.buffer) >= self.limit.
SQliteBuffered_save_record(s, record) ==
  LET s1 == [s EXCEPT !.buffer = Append(@, record)]
  IN IF Len(s1.buffer) >= s1.buffer_size
       THEN SQliteBuffered_flush_buffer(s1)
       ELSE s1

\* SQliteBuffered.finish of test.py: self._flush_buffer(); self.con.close()
SQliteBuffered_finish(s) == close(SQliteBuffered_flush_buffer(s))

\* ins.save_record(record), by the class of ins.
save_record(s, record) ==
  CASE s.variant = "SQliteBufferedList" ->
         SQliteBufferedList_save_record(s, record)
    [] s.variant = "SQliteBufferedReverseList" ->
         SQliteBufferedReverseList_save_record(s, record)
    [] s.variant = "SQliteBufferedDeque" ->
         SQliteBufferedDeque_save_record(s, record)
    [] s.variant = "SQliteBuffered" ->
         SQliteBuffered_save_record(s, record)

\* ins.finalize() (test.py: self.finish()), by the class of ins.
finalize(s) ==
  CASE s.variant = "SQliteBufferedList" -> SQliteBufferedList_finalize(s)
    [] s.variant = "SQliteBufferedReverseList" -> SQliteBufferedList_finalize(s)
    [] s.variant = "SQliteBufferedDeque" -> SQliteBufferedDeque_finalize(s)
    [] s.variant = "SQliteBuffered" -> SQliteBuffered_finish(s)

\* ins = cls() for one of the buffering classes.
InitStorage ==
  /\ InitIndex
  /\ \E variant \in Variants, size \in 1..MaxBufferSize :
       ins = NewIns(variant, size)
  /\ mg = NoMg

index == <<map, head_id, tail_id, user_sessions, err, last, adds, hung, driver>>

\* One pass of the loop of run_benchmark: i += 1; ins.save_record(record)
SaveRecord ==
  /\ ~ins.closed
  /\ ins.i < MaxRecords
  /\ ins' = save_record([ins EXCEPT !.i = @ + 1], ins.i + 1)
  /\ UNCHANGED <<index, mg>>

\* ins.finalize() after the loop.
Finalize ==
  /\ ~ins.closed
  /\ ins' = finalize(ins)
  /\ UNCHANGED <<index, mg>>

NextStorage ==
  \/ SaveRecord
  \/ Finalize

SpecStorage == InitStorage /\ [][NextStorage]_vars

\* The number of times record r is in the sequence rows.
Count(rows, r) == Cardinality({k \in 1..Len(rows) : rows[k] = r})

\* C21: buffered storage loses and duplicates nothing. Once finalize (finish)
\* has run, every record passed in is in the committed table exactly once,
\* nothing else is, and the buffer is empty; and after every save_record
\* that has returned, the buffer holds fewer than buffer_size records.
C21_BufferedLosesNothing ==
  /\ ins.closed =>
       /\ ins.buffer = <<>>
       /\ Len(ins.log) = ins.i
       /\ \A r \in 1..ins.i : Count(ins.log, r) = 1
  /\ (~ins.closed /\ ins.i > 0) => Len(ins.buffer) < ins.buffer_size

\* A finalized run in which a save_record flushed a full buffer and
\* finalize flushed a partly filled one.
C21_Witness ==
  /\ ins.closed
  /\ ins.buffer_size > 1
  /\ ins.i > ins.buffer_size
  /\ ins.i % ins.buffer_size # 0
  /\ Len(ins.log) = ins.i

\* ------------------------------------------------------------ src/mg.py
\* num_from and num_to are drawn from 1..MaxNum.
MaxNum == 22

abs(x) == IF x < 0 THEN -x ELSE x

\* The same list with the third action counted as one iteration.
actions_ThirdCostsOne(i) ==
  << <<i * 2, 1>>, <<i - 1, 1>>, <<(i - 1) * 2, 1>>, <<i * 2, 1>> >>

\* self.__actions applied to i: the pairs (result, iterations), in list
\* order.
actions(i) ==
  << <<i * 2, 1>>, <<i - 1, 1>>, <<(i - 1) * 2, 2>>, <<i * 2, 1>> >>

\* The for loop of Mg.result from the k-th action on, min_delta being <<>>
\* for None: either an action produces num_to (found, with its iterations)
\* or the loop ends with the first smallest |num_to - num_| and its
\* iterations.
RECURSIVE for_actions(_, _, _, _)
for_actions(num, num_to, k, min_delta) ==
  IF k > Len(actions(num))
    THEN [found |-> FALSE, iters |-> 0, min_delta |-> min_delta]
    ELSE LET num_ == actions(num)[k][1]
             iters == actions(num)[k][2]
         IN IF num_ = num_to
              THEN [found |-> TRUE, iters |-> iters, min_delta |-> min_delta]
              ELSE for_actions(num, num_to, k + 1,
                     IF min_delta = <<>> \/ abs(num_to - num_) < min_delta[1]
                       THEN <<abs(num_to - num_), iters>>
                       ELSE min_delta)

\* self.__increment(i)
increment(m, i) == [m EXCEPT !.iterations = @ + i]

\* One pass of `while True:` in Mg.result: the for loop, then either the
\* return of self.__iterations through MgStopCalculation, or
\* `num, iters = min_delta` and the increment.
while_pass(m) ==
  LET r == for_actions(m.num, m.num_to, 1, <<>>)
  IN IF r.found
       THEN [increment(m, r.iters) EXCEPT !.pc = "returned"]
       ELSE IF r.min_delta # <<>>
              THEN [increment(m, r.min_delta[2]) EXCEPT !.num = r.min_delta[1]]
              ELSE m

\* Mg.calculate(num_from, num_to) has constructed the object and entered
\* result; __iterations is 0, so the cached value is not used.
InitMg ==
  /\ InitIndex
  /\ ins = NoIns
  /\ \E num_from \in 1..MaxNum, num_to \in 1..MaxNum :
       mg = NewMg(num_from, num_to)

\* One pass of the search loop. The pass is a function of num and num_to
\* alone, so a pass that leaves a num some pass has started with before
\* repeats the passes since then for ever: the call never returns (hung).
ResultPass ==
  /\ mg.pc = "result"
  /\ ~mg.hung
  /\ LET m == while_pass(mg)
         seen == mg.seen \cup {mg.num}
     IN mg' = [m EXCEPT !.seen = seen,
                        !.hung = m.pc = "result" /\ m.num \in seen]
  /\ UNCHANGED <<index, ins>>

NextMg == ResultPass

SpecMg == InitMg /\ [][NextMg]_vars

\* The iterations of the first action of the list that takes num_from to
\* num_to in one step, 0 if none does.
OneStepCost(num_from, num_to) ==
  IF num_to = 2 * num_from \/ num_to = num_from - 1 THEN 1
  ELSE IF num_to = 2 * (num_from - 1) THEN 2
  ELSE 0

\* C22: Mg one-step results. When one of the actions applied to num_from
\* yields num_to, the call returns after its first pass, and what it returns
\* is 1 when num_to = 2*num_from or num_to = num_from-1, and 2 when
\* num_to = 2*(num_from-1) and neither of the former holds.
C22_OneStepResult ==
  OneStepCost(mg.num_from, mg.num_to) > 0 =>
    \/ mg.pc = "result" /\ mg.seen = {} /\ mg.iterations = 0
    \/ /\ mg.pc = "returned"
       /\ mg.seen = {mg.num_from}
       /\ mg.iterations = OneStepCost(mg.num_from, mg.num_to)

\* calculate(6, 10) has returned 2.
C22_Witness ==
  /\ mg.pc = "returned"
  /\ mg.num_from = 6
  /\ mg.num_to = 10
  /\ mg.iterations = 2

\* C23: Mg.calculate terminates. For every num_from and num_to in
\* 1..MaxNum the search loop never starts a pass with a number it has
\* started a pass with before, which is what returning takes: the numbers of
\* a search stay within 1..max(num_from, num_to), so a search that repeats
\* none of them ends.
C23_SearchReturns == ~mg.hung
====
